---- MODULE Spec2Model ----
(***************************************************************************)
(* Geographic standardization engine of the ingestor                       *)
(* (apps/ingestor/standardization_loader.py, fuzzy_standardizer.py).       *)
(*                                                                         *)
(* Text is a sequence of one-character strings.  Python's None and a       *)
(* non-text value (e.g. a number read from a spreadsheet cell) are the two *)
(* reserved one-element sequences None and NonText, which are no text.     *)
(* An optional object (a dict entry, a FullCityData, the result of         *)
(* extractOne) is a sequence of length 0 (None) or 1.                      *)
(***************************************************************************)
EXTENDS Integers, Sequences, FiniteSets, TLC

VARIABLES
    pc,                \* "unloaded" | "loaded" | "ready" | "returned"
    snapshot,          \* the files of the optimized/ directory
    country_mappings,  \* FullCitiesDataLoader.country_mappings (a dict)
    state_mappings,    \* FullCitiesDataLoader.state_mappings
    city_mappings,     \* FullCitiesDataLoader.city_mappings
    fuzzy,             \* FuzzyStandardizer's corpus lists and thresholds
    stats,             \* FuzzyStandardizer.stats
    rec,               \* customer_data of the call in progress / just returned
    call,              \* locals of the last standardize_customer_data call
    rows,              \* rows the ingest loop has handed to standardize
    workers,           \* per worker: its row and its position in the call
    full_cities_loader, \* the module's global instance (<<>> for None)
    callers            \* per caller of get_full_cities_loader: its position

vars == <<pc, snapshot, country_mappings, state_mappings, city_mappings,
          fuzzy, stats, rec, call, rows, workers, full_cities_loader, callers>>

(***************************************************************************)
(* Bounds of the model                                                     *)
(***************************************************************************)
\* characters a mistyped input text drops from the end of a reference name
MaxDrop == 1

\* rows the ingest loop standardizes in one run
MaxRows == 2

\* workers that call standardize on the shared instance at the same time
NumWorkers == 2

\* threads that call get_full_cities_loader at the same time
NumCallers == 2

Callers == 1..NumCallers

\* parts an address is made of
MaxParts == 4

(***************************************************************************)
(* Python values and str methods                                           *)
(***************************************************************************)
None == <<"<None>">>
NonText == <<"<int>">>

IsText(v) == v # None /\ v # NonText

\* Python truthiness of None, a str, or a non-zero number
Truthy(v) == v # None /\ v # <<>>

UpperCase == <<"A","B","C","D","E","F","G","H","I","J","K","L","M",
               "N","O","P","Q","R","S","T","U","V","W","X","Y","Z">>
LowerCase == <<"a","b","c","d","e","f","g","h","i","j","k","l","m",
               "n","o","p","q","r","s","t","u","v","w","x","y","z">>
Digits == {"0","1","2","3","4","5","6","7","8","9"}
Whitespace == {" ", "\t", "\n"}

Range(s) == {s[i] : i \in DOMAIN s}

LowerChar(c) ==
    IF \E i \in DOMAIN UpperCase : UpperCase[i] = c
    THEN LowerCase[CHOOSE i \in DOMAIN UpperCase : UpperCase[i] = c]
    ELSE c

\* str.lower()
Lower(s) == [i \in DOMAIN s |-> LowerChar(s[i])]

\* str.strip()
Strip(s) ==
    LET keep == {i \in DOMAIN s : s[i] \notin Whitespace}
    IN IF keep = {} THEN <<>>
       ELSE LET lo == CHOOSE i \in keep : \A j \in keep : i <= j
                hi == CHOOSE i \in keep : \A j \in keep : j <= i
            IN SubSeq(s, lo, hi)

\* a key made by lower() alone, without strip()
LowerOnly(s) == Lower(s)

\* name.lower().strip(), the key of every exact lookup
Normalize(s) == Strip(Lower(s))

IsAlphaChar(c) == c \in Range(UpperCase) \/ c \in Range(LowerCase)

\* str.isalpha()
IsAlpha(s) == Len(s) > 0 /\ \A i \in DOMAIN s : IsAlphaChar(s[i])

\* s.startswith(p)
StartsWith(s, p) == Len(p) <= Len(s) /\ SubSeq(s, 1, Len(p)) = p

\* the Python expression  sub in s  on two str
Contains(s, sub) ==
    \E i \in 1..(Len(s) - Len(sub) + 1) : SubSeq(s, i, i + Len(sub) - 1) = sub

Max(a, b) == IF a >= b THEN a ELSE b
Min(a, b) == IF a <= b THEN a ELSE b

(***************************************************************************)
(* FuzzyStandardizer() defaults and the city corpus limit                  *)
(***************************************************************************)
country_threshold == 85
state_threshold == 80
city_threshold == 75
max_cities == 50000

(***************************************************************************)
(* thefuzz: fuzz.ratio and process.extractOne                              *)
(***************************************************************************)
RECURSIVE LcsRow(_, _, _, _)
LcsRow(prev, ch, b, acc) ==
    IF Len(acc) = Len(b) THEN acc
    ELSE LET j    == Len(acc) + 1
             left == IF j = 1 THEN 0 ELSE acc[j - 1]
             diag == IF j = 1 THEN 0 ELSE prev[j - 1]
             v    == IF ch = b[j] THEN diag + 1 ELSE Max(prev[j], left)
         IN LcsRow(prev, ch, b, Append(acc, v))

RECURSIVE LcsRows(_, _, _, _)
LcsRows(a, b, i, prev) ==
    IF i > Len(a) THEN prev
    ELSE LcsRows(a, b, i + 1, LcsRow(prev, a[i], b, <<>>))

\* length of the longest common subsequence of a and b
LCS(a, b) ==
    IF Len(a) = 0 \/ Len(b) = 0 THEN 0
    ELSE LcsRows(a, b, 1, [j \in 1..Len(b) |-> 0])[Len(b)]

\* fuzz.ratio: 100 * 2 * LCS / (len(a) + len(b)), rounded to an integer;
\* 0 when a string is empty
Ratio(a, b) ==
    IF Len(a) = 0 \/ Len(b) = 0 THEN 0
    ELSE (2 * 200 * LCS(a, b) + (Len(a) + Len(b))) \div (2 * (Len(a) + Len(b)))

\* thefuzz.utils.full_process, the default processor of extractOne:
\* every character that is no letter or digit becomes a space, then
\* lower() and strip()
FullProcess(s) ==
    Strip(Lower([i \in DOMAIN s |->
        IF IsAlphaChar(s[i]) \/ s[i] \in Digits THEN s[i] ELSE " "]))

RECURSIVE ExtractBest(_, _, _, _, _)
ExtractBest(query, choices, score_cutoff, i, best) ==
    IF i > Len(choices) THEN best
    ELSE LET Better(score) ==
                 IF score >= score_cutoff
                    /\ (best = <<>> \/ score > best[1].score)
                 THEN <<[name |-> choices[i], score |-> score]>>
                 ELSE best
         IN ExtractBest(query, choices, score_cutoff, i + 1,
                        Better(Ratio(query, FullProcess(choices[i]))))

RECURSIVE ExtractLast(_, _, _, _, _)
ExtractLast(query, choices, score_cutoff, i, best) ==
    IF i > Len(choices) THEN best
    ELSE LET Better(score) ==
                 IF score >= score_cutoff
                    /\ (best = <<>> \/ score >= best[1].score)
                 THEN <<[name |-> choices[i], score |-> score]>>
                 ELSE best
         IN ExtractLast(query, choices, score_cutoff, i + 1,
                        Better(Ratio(query, FullProcess(choices[i]))))

\* an extractOne that keeps the last of the choices that share the highest
\* score
ExtractOneLast(query, choices, score_cutoff) ==
    ExtractLast(FullProcess(query), choices, score_cutoff, 1, <<>>)

\* extractOne called without score_cutoff: the best choice whatever its score
ExtractOneNoCutoff(query, choices, score_cutoff) ==
    ExtractBest(FullProcess(query), choices, 0, 1, <<>>)

\* process.extractOne(query, choices, scorer=fuzz.ratio, score_cutoff=c):
\* the first choice of the highest score, if that score is >= c
ExtractOne(query, choices, score_cutoff) ==
    ExtractBest(FullProcess(query), choices, score_cutoff, 1, <<>>)

(***************************************************************************)
(* Python dict: insertion-ordered keys and their values                    *)
(***************************************************************************)
EmptyDict == [keys |-> <<>>, val |-> <<>>]

HasKey(d, k) == \E i \in DOMAIN d.keys : d.keys[i] = k

ValueOf(d, k) == d.val[CHOOSE i \in DOMAIN d.keys : d.keys[i] = k]

\* d.get(k): <<value>> or <<>> for None
DictGet(d, k) == IF HasKey(d, k) THEN <<ValueOf(d, k)>> ELSE <<>>

\* d[k] = v: a new key goes last, an existing key keeps its place
DictSet(d, k, v) ==
    IF HasKey(d, k)
    THEN [keys |-> d.keys,
          val  |-> [i \in DOMAIN d.val |-> IF d.keys[i] = k THEN v ELSE d.val[i]]]
    ELSE [keys |-> Append(d.keys, k), val |-> Append(d.val, v)]

(***************************************************************************)
(* The snapshot: optimized/countries.bin, states.bin, cities_full.bin as   *)
(* convert_standardization_files_simple.py writes them (a pickled dict     *)
(* from lower-cased name to the row).                                      *)
(***************************************************************************)
India == [id |-> 101, iso3 |-> <<"I","N","D">>, iso2 |-> <<"I","N">>,
          display |-> <<"I","n","d","i","a">>]
Peru  == [id |-> 173, iso3 |-> <<"P","E","R">>, iso2 |-> <<"P","E">>,
          display |-> <<"P","e","r","u">>]

Goa  == [id |-> 4009, code |-> <<"G","A">>,
         iso3166_2 |-> <<"I","N","-","G","A">>,
         display |-> <<"G","o","a">>, country |-> <<"I","N">>]
Puno == [id |-> 3373, code |-> <<"P","U","N">>,
         iso3166_2 |-> <<"P","E","-","P","U","N">>,
         display |-> <<"P","u","n","o">>, country |-> <<"P","E">>]

\* Pune lies in Maharashtra, a state the states table below does not hold
PuneCity == [code |-> <<"P","u","n","e">>, display |-> <<"P","u","n","e">>,
             country |-> <<"I","N">>, state |-> <<"M","H">>,
             country_id |-> 101, state_id |-> 4008,
             country_name |-> <<"I","n","d","i","a">>,
             state_name |-> <<"M","a","h","a","r","a","s","h","t","r","a">>,
             population |-> 3124458, latitude |-> 18, longitude |-> 73]
PunoCity == [code |-> <<"P","u","n","o">>, display |-> <<"P","u","n","o">>,
             country |-> <<"P","E">>, state |-> <<"P","U","N">>,
             country_id |-> 173, state_id |-> 3373,
             country_name |-> <<"P","e","r","u">>,
             state_name |-> <<"P","u","n","o">>,
             population |-> 116552, latitude |-> -15, longitude |-> -70]
\* Lome lies in Togo, a country the countries table below does not hold
LomeCity == [code |-> <<"L","o","m","e">>, display |-> <<"L","o","m","e">>,
             country |-> <<"T","G">>, state |-> <<"M">>,
             country_id |-> 218, state_id |-> 2575,
             country_name |-> <<"T","o","g","o">>,
             state_name |-> <<"M","a","r","i","t","i","m","e">>,
             population |-> 749700, latitude |-> 6, longitude |-> 1]

CountriesBin ==
    [keys |-> << <<"i","n","d","i","a">>, <<"p","e","r","u">> >>,
     val  |-> << India, Peru >>]
StatesBin ==
    [keys |-> << <<"g","o","a">>, <<"p","u","n","o">> >>,
     val  |-> << Goa, Puno >>]
CitiesBin ==
    [keys |-> << <<"p","u","n","e">>, <<"p","u","n","o">>, <<"l","o","m","e">> >>,
     val  |-> << PuneCity, PunoCity, LomeCity >>]
\* the same cities, written to the file in another order
CitiesBinSwapped ==
    [keys |-> << <<"p","u","n","o">>, <<"p","u","n","e">>, <<"l","o","m","e">> >>,
     val  |-> << PunoCity, PuneCity, LomeCity >>]

\* a file of the directory: <<dict>>, or <<>> when os.path.exists is false
Snapshots ==
    { [countries |-> <<CountriesBin>>, states |-> <<StatesBin>>, cities |-> <<c>>]
        : c \in {CitiesBin, CitiesBinSwapped} }
    \cup
    { [countries |-> <<>>, states |-> <<StatesBin>>, cities |-> <<CitiesBin>>],
      [countries |-> <<CountriesBin>>, states |-> <<>>, cities |-> <<CitiesBin>>],
      [countries |-> <<CountriesBin>>, states |-> <<StatesBin>>, cities |-> <<>>] }

(***************************************************************************)
(* FullCitiesDataLoader: construction                                      *)
(***************************************************************************)
RECURSIVE CopyItems(_, _, _)
\* for name, data in data.items(): mappings[name] = {...}
CopyItems(mappings, data, i) ==
    IF i > Len(data.keys) THEN mappings
    ELSE CopyItems(DictSet(mappings, data.keys[i], data.val[i]), data, i + 1)

\* load_countries / load_states / load_all_cities: a missing file prints a
\* warning and returns, leaving the table as it is
load_countries(mappings, file) ==
    IF file = <<>> THEN mappings ELSE CopyItems(mappings, file[1], 1)

load_states(mappings, file) ==
    IF file = <<>> THEN mappings ELSE CopyItems(mappings, file[1], 1)

load_all_cities(mappings, file) ==
    IF file = <<>> THEN mappings ELSE CopyItems(mappings, file[1], 1)

country_variations ==
  << <<<<"u","s">>, <<"u","n","i","t","e","d"," ","s","t","a","t","e","s">>>>,
     <<<<"u","s","a">>, <<"u","n","i","t","e","d"," ","s","t","a","t","e","s">>>>,
     <<<<"u","k">>, <<"u","n","i","t","e","d"," ","k","i","n","g","d","o","m">>>>,
     <<<<"g","b">>, <<"u","n","i","t","e","d"," ","k","i","n","g","d","o","m">>>>,
     <<<<"c","a","n">>, <<"c","a","n","a","d","a">>>>,
     <<<<"a","u","s">>, <<"a","u","s","t","r","a","l","i","a">>>>,
     <<<<"d","e">>, <<"g","e","r","m","a","n","y">>>>,
     <<<<"f","r">>, <<"f","r","a","n","c","e">>>>,
     <<<<"j","p">>, <<"j","a","p","a","n">>>>,
     <<<<"c","n">>, <<"c","h","i","n","a">>>>,
     <<<<"i","n">>, <<"i","n","d","i","a">>>>,
     <<<<"b","r">>, <<"b","r","a","z","i","l">>>>,
     <<<<"m","x">>, <<"m","e","x","i","c","o">>>>,
     <<<<"s","g">>, <<"s","i","n","g","a","p","o","r","e">>>>,
     <<<<"m","y">>, <<"m","a","l","a","y","s","i","a">>>>,
     <<<<"t","h">>, <<"t","h","a","i","l","a","n","d">>>>,
     <<<<"k","r">>, <<"s","o","u","t","h"," ","k","o","r","e","a">>>>,
     <<<<"i","t">>, <<"i","t","a","l","y">>>>,
     <<<<"e","s">>, <<"s","p","a","i","n">>>>,
     <<<<"n","l">>, <<"n","e","t","h","e","r","l","a","n","d","s">>>>,
     <<<<"s","e">>, <<"s","w","e","d","e","n">>>>,
     <<<<"n","o">>, <<"n","o","r","w","a","y">>>>,
     <<<<"d","k">>, <<"d","e","n","m","a","r","k">>>>,
     <<<<"f","i">>, <<"f","i","n","l","a","n","d">>>>,
     <<<<"c","h">>, <<"s","w","i","t","z","e","r","l","a","n","d">>>>,
     <<<<"a","t">>, <<"a","u","s","t","r","i","a">>>>,
     <<<<"b","e">>, <<"b","e","l","g","i","u","m">>>>,
     <<<<"i","e">>, <<"i","r","e","l","a","n","d">>>>,
     <<<<"n","z">>, <<"n","e","w"," ","z","e","a","l","a","n","d">>>>,
     <<<<"z","a">>, <<"s","o","u","t","h"," ","a","f","r","i","c","a">>>>,
     <<<<"e","g">>, <<"e","g","y","p","t">>>>,
     <<<<"i","l">>, <<"i","s","r","a","e","l">>>>,
     <<<<"t","r">>, <<"t","u","r","k","e","y">>>>,
     <<<<"r","u">>, <<"r","u","s","s","i","a">>>>,
     <<<<"p","l">>, <<"p","o","l","a","n","d">>>>,
     <<<<"c","z">>, <<"c","z","e","c","h"," ","r","e","p","u","b","l","i","c">>>>,
     <<<<"h","u">>, <<"h","u","n","g","a","r","y">>>>,
     <<<<"p","t">>, <<"p","o","r","t","u","g","a","l">>>>,
     <<<<"g","r">>, <<"g","r","e","e","c","e">>>> >>

us_state_variations ==
  << <<<<"c","a","l","i">>, <<"c","a","l","i","f","o","r","n","i","a">>>>,
     <<<<"c","a","l","i","f">>, <<"c","a","l","i","f","o","r","n","i","a">>>>,
     <<<<"n","y">>, <<"n","e","w"," ","y","o","r","k">>>>,
     <<<<"d","c">>, <<"d","i","s","t","r","i","c","t"," ","o","f"," ","c","o","l","u","m","b","i","a">>>>,
     <<<<"w","a","s","h","i","n","g","t","o","n"," ","d","c">>,
       <<"d","i","s","t","r","i","c","t"," ","o","f"," ","c","o","l","u","m","b","i","a">>>>,
     <<<<"d",".","c",".">>,
       <<"d","i","s","t","r","i","c","t"," ","o","f"," ","c","o","l","u","m","b","i","a">>>> >>

RECURSIVE AddVariationsFrom(_, _, _)
\* for variation, standard in variations.items():
\*     if standard in mappings: mappings[variation] = mappings[standard]
AddVariationsFrom(mappings, variations, i) ==
    IF i > Len(variations) THEN mappings
    ELSE IF HasKey(mappings, variations[i][2])
    THEN AddVariationsFrom(
             DictSet(mappings, variations[i][1],
                     ValueOf(mappings, variations[i][2])),
             variations, i + 1)
    ELSE AddVariationsFrom(mappings, variations, i + 1)

\* the load without its variations step
NoVariations(mappings, variations) == mappings

AddVariations(mappings, variations) == AddVariationsFrom(mappings, variations, 1)

(***************************************************************************)
(* FullCitiesDataLoader: lookups.  Each is used on None or text only; a    *)
(* non-text argument makes name.lower() raise (see Raises below).          *)
(***************************************************************************)
\* <<FullCityData>> or <<>>
get_city_info(city_name) ==
    IF ~Truthy(city_name) THEN <<>>
    ELSE DictGet(city_mappings, Normalize(city_name))

\* a state lookup that also accepts the best fuzzy match of the state names
get_state_by_name_fuzzy(state_name) ==
    IF ~Truthy(state_name) THEN <<>>
    ELSE IF HasKey(state_mappings, Normalize(state_name))
    THEN DictGet(state_mappings, Normalize(state_name))
    ELSE LET best == ExtractOne(Normalize(state_name), state_mappings.keys,
                                state_threshold)
         IN IF best = <<>> THEN <<>> ELSE DictGet(state_mappings, best[1].name)

\* <<state dict>> or <<>>
get_state_by_name(state_name) ==
    IF ~Truthy(state_name) THEN <<>>
    ELSE DictGet(state_mappings, Normalize(state_name))

\* a country lookup that returns the two-letter code of the entry
get_country_code_iso2(country_name) ==
    IF ~Truthy(country_name) THEN None
    ELSE LET country_data == DictGet(country_mappings, Normalize(country_name))
         IN IF country_data # <<>> THEN country_data[1].iso2 ELSE None

get_country_code(country_name) ==
    IF ~Truthy(country_name) THEN None
    ELSE LET country_data == DictGet(country_mappings, Normalize(country_name))
         IN IF country_data # <<>> THEN country_data[1].iso3 ELSE None

get_country_display(country_name) ==
    IF ~Truthy(country_name) THEN None
    ELSE LET country_data == DictGet(country_mappings, Normalize(country_name))
         IN IF country_data # <<>> THEN country_data[1].display ELSE None

get_state_code(state_name) ==
    IF ~Truthy(state_name) THEN None
    ELSE LET state_data == DictGet(state_mappings, Normalize(state_name))
         IN IF state_data # <<>> THEN state_data[1].code ELSE None

get_state_display(state_name) ==
    IF ~Truthy(state_name) THEN None
    ELSE LET state_data == DictGet(state_mappings, Normalize(state_name))
         IN IF state_data # <<>> THEN state_data[1].display ELSE None

\* the display of the first country of the table whose iso3 or iso2 is the code
get_city_code(city_name) ==
    IF ~Truthy(city_name) THEN None
    ELSE LET city_data == DictGet(city_mappings, Normalize(city_name))
         IN IF city_data # <<>> THEN city_data[1].code ELSE None

get_city_display(city_name) ==
    IF ~Truthy(city_name) THEN None
    ELSE LET city_data == DictGet(city_mappings, Normalize(city_name))
         IN IF city_data # <<>> THEN city_data[1].display ELSE None

get_country_display_by_code(country_code) ==
    IF ~Truthy(country_code) THEN None
    ELSE LET hits == {i \in DOMAIN country_mappings.val :
                         \/ country_mappings.val[i].iso3 = country_code
                         \/ country_mappings.val[i].iso2 = country_code}
         IN IF hits = {} THEN None
            ELSE country_mappings.val[CHOOSE i \in hits : \A j \in hits : i <= j].display

\* the iso3166_2 of the first state of the table whose id is state_id
get_state_iso3166_2_by_id(state_id) ==
    IF state_id = 0 THEN None
    ELSE LET hits == {i \in DOMAIN state_mappings.val :
                         state_mappings.val[i].id = state_id}
         IN IF hits = {} THEN None
            ELSE state_mappings.val[CHOOSE i \in hits : \A j \in hits : i <= j].iso3166_2

prefixes_to_remove ==
  << <<"a","d","d","r","e","s","s",":">>,
     <<"a","d","d","r",":">>,
     <<"s","t","r","e","e","t",":">>,
     <<"s","t",":">>,
     <<"a","v","e","n","u","e",":">>,
     <<"a","v","e",":">>,
     <<"r","o","a","d",":">>,
     <<"r","d",":">>,
     <<"b","o","u","l","e","v","a","r","d",":">>,
     <<"b","l","v","d",":">> >>

separators == << <<",">>, <<";">>, <<"\n">>, <<"\t">>, <<" "," ">> >>

RECURSIVE RemovePrefixes(_, _)
\* for prefix in prefixes_to_remove:
\*     if cleaned.startswith(prefix): cleaned = cleaned[len(prefix):].strip()
RemovePrefixes(cleaned, i) ==
    IF i > Len(prefixes_to_remove) THEN cleaned
    ELSE LET prefix == prefixes_to_remove[i]
         IN RemovePrefixes(
                IF StartsWith(cleaned, prefix)
                THEN Strip(SubSeq(cleaned, Len(prefix) + 1, Len(cleaned)))
                ELSE cleaned,
                i + 1)

RECURSIVE SplitFrom(_, _, _, _, _)
SplitFrom(s, sep, i, cur, acc) ==
    IF i > Len(s) THEN Append(acc, cur)
    ELSE IF i + Len(sep) - 1 <= Len(s) /\ SubSeq(s, i, i + Len(sep) - 1) = sep
         THEN SplitFrom(s, sep, i + Len(sep), <<>>, Append(acc, cur))
         ELSE SplitFrom(s, sep, i + 1, Append(cur, s[i]), acc)

\* s.split(sep)
Split(s, sep) == SplitFrom(s, sep, 1, <<>>, <<>>)

\* every part of the split, not only the last three
AllParts(cleaned, sep) ==
    LET parts == Split(cleaned, sep)
    IN [i \in DOMAIN parts |-> Strip(parts[i])]

\* [part.strip() for part in cleaned.split(sep)][-3:]
LastParts(cleaned, sep) ==
    LET parts == Split(cleaned, sep)
        tail  == SubSeq(parts, Max(1, Len(parts) - 2), Len(parts))
    IN [i \in DOMAIN tail |-> Strip(tail[i])]

\* the test a part must pass to be returned
PartQualifies(part) ==
    /\ Len(part) > 2
    /\ IsAlpha(part)
    /\ (get_city_info(part) # <<>> \/ get_state_by_name(part) # <<>>)

RECURSIVE ScanSeparators(_, _)
\* for sep in separators: if sep in cleaned: for part in reversed(parts[-3:]) ...
ScanSeparators(cleaned, k) ==
    IF k > Len(separators) THEN None
    ELSE LET sep  == separators[k]
             tail == IF Contains(cleaned, sep) THEN LastParts(cleaned, sep) ELSE <<>>
             ok   == {i \in DOMAIN tail : PartQualifies(tail[i])}
         IN IF ok # {}
            THEN tail[CHOOSE i \in ok : \A j \in ok : j <= i]
            ELSE ScanSeparators(cleaned, k + 1)

\* the extracted part, or None
parse_city_from_address(address) ==
    IF ~Truthy(address) THEN None
    ELSE ScanSeparators(RemovePrefixes(Strip(Lower(address)), 1), 1)

(***************************************************************************)
(* FuzzyStandardizer                                                       *)
(***************************************************************************)

InitialStats ==
    [countries_standardized       |-> 0,
     states_standardized          |-> 0,
     cities_standardized          |-> 0,
     countries_from_city_fallback |-> 0,
     states_from_city_fallback    |-> 0,
     countries_fuzzy_matched      |-> 0,
     states_fuzzy_matched         |-> 0,
     cities_fuzzy_matched         |-> 0,
     unknown_countries            |-> {},
     unknown_states               |-> {},
     unknown_cities               |-> {}]

\* self.stats[counter] += 1
Inc(st, counter) == [st EXCEPT ![counter] = @ + 1]

\* self.stats[unknowns].add(raw)
AddUnknown(st, unknowns, raw) == [st EXCEPT ![unknowns] = @ \cup {raw}]

\* the first n items of a dict, in insertion order
FirstItems(d, n) ==
    [keys |-> SubSeq(d.keys, 1, Min(n, Len(d.keys))),
     val  |-> SubSeq(d.val, 1, Min(n, Len(d.val)))]

\* _build_fuzzy_lookup_lists: the names of each table in dict order, the
\* cities cut after max_cities
BuildFuzzyLookupLists ==
    [country_names   |-> country_mappings.keys,
     country_mapping |-> country_mappings,
     state_names     |-> state_mappings.keys,
     state_mapping   |-> state_mappings,
     city_names      |-> FirstItems(city_mappings, max_cities).keys,
     city_mapping    |-> FirstItems(city_mappings, max_cities)]

\* name.lower() on a value that is no str raises AttributeError
Raises(v) == v = NonText

\* a country test that lets every candidate through
AnyCountry(country_hint, country_name) == TRUE

\* country_hint_lower in city_country_lower or city_country_lower in country_hint_lower
CountryOverlaps(country_hint, country_name) ==
    \/ Contains(Lower(country_name), Lower(country_hint))
    \/ Contains(Lower(country_hint), Lower(country_name))

CityMiss(best) == [raised |-> FALSE, info |-> <<>>, fuzzy_matched |-> 0, best |-> best]

\* _get_city_info_fuzzy: info is the FullCityData returned (<<>> for None),
\* fuzzy_matched the increment of stats['cities_fuzzy_matched'], best what
\* extractOne returned
GetCityInfoFuzzy(city_name, country_hint) ==
    IF ~Truthy(city_name) THEN CityMiss(<<>>)
    ELSE IF Raises(city_name)
    THEN [raised |-> TRUE, info |-> <<>>, fuzzy_matched |-> 0, best |-> <<>>]
    ELSE
      LET Validated(best_match, city_info) ==
              LET hit == [raised |-> FALSE, info |-> city_info,
                          fuzzy_matched |-> 1, best |-> best_match]
              IN IF city_info = <<>> THEN CityMiss(best_match)
                 ELSE IF Truthy(country_hint)
                         /\ Truthy(city_info[1].country_name)
                 THEN IF Raises(country_hint)
                      THEN [raised |-> TRUE, info |-> <<>>,
                            fuzzy_matched |-> 0, best |-> best_match]
                      ELSE IF CountryOverlaps(country_hint,
                                              city_info[1].country_name)
                           THEN hit
                           ELSE CityMiss(best_match)
                 ELSE hit
          Matched(best_match) ==
              Validated(best_match,
                        IF best_match = <<>> THEN <<>>
                        ELSE get_city_info(best_match[1].name))
          Looked(exact) ==
              IF exact # <<>>
              THEN [raised |-> FALSE, info |-> exact,
                    fuzzy_matched |-> 0, best |-> <<>>]
              ELSE Matched(ExtractOne(Normalize(city_name), fuzzy.city_names,
                                      city_threshold))
      IN Looked(get_city_info(city_name))

\* a city write that also replaces the city text by the display name
WithCityRewritten(customer_data, city_info) ==
    [customer_data EXCEPT !.cityCode = city_info.code,
                          !.cityDisplay = city_info.display,
                          !.city = city_info.display]

\* customer_data['cityCode'] = city_info.code; ['cityDisplay'] = city_info.display
WithCity(customer_data, city_info) ==
    [customer_data EXCEPT !.cityCode = city_info.code,
                          !.cityDisplay = city_info.display]

\* Step 1 of standardize_customer_data.  path tells which branch ended the
\* step; first is the result of _get_city_info_fuzzy on the city text,
\* extracted what parse_city_from_address returned, second the result of
\* _get_city_info_fuzzy on the extracted part.
CityStep(customer_data, st) ==
    LET city_name    == customer_data.city
        country_hint == customer_data.country
        address      == customer_data.address
        Steps(first, state_info, extracted, second) ==
          LET
            st1 == [st EXCEPT !.cities_fuzzy_matched = @ + first.fuzzy_matched]
            st2 == [st1 EXCEPT !.cities_fuzzy_matched = @ + second.fuzzy_matched]
            out(r, s, info, raised, path, ex, snd) ==
                [rec |-> r, stats |-> s, city_info |-> info, raised |-> raised,
                 path |-> path, first |-> first, extracted |-> ex,
                 second |-> snd]
            unknown(s, ex, snd) ==
                out(customer_data, AddUnknown(s, "unknown_cities", city_name),
                    <<>>, FALSE, "unknown", ex, snd)
          IN IF ~Truthy(city_name)
             THEN out(customer_data, st, <<>>, FALSE, "skipped", None, CityMiss(<<>>))
             ELSE IF first.raised
             THEN out(customer_data, st1, <<>>, TRUE, "raised", None, CityMiss(<<>>))
             ELSE IF first.info # <<>>
             THEN out(WithCity(customer_data, first.info[1]),
                      Inc(st1, "cities_standardized"), first.info, FALSE,
                      "city", None, CityMiss(<<>>))
             ELSE IF state_info # <<>>
             THEN out([customer_data EXCEPT !.stateCode = state_info[1].iso3166_2,
                                            !.stateDisplay = state_info[1].display],
                      Inc(st1, "states_standardized"), <<>>, FALSE,
                      "state", None, CityMiss(<<>>))
             ELSE IF ~Truthy(address)
             THEN unknown(st1, None, CityMiss(<<>>))
             ELSE IF Raises(address)
             THEN out(customer_data, st1, <<>>, TRUE, "raised", None, CityMiss(<<>>))
             ELSE IF ~Truthy(extracted)
             THEN unknown(st1, None, CityMiss(<<>>))
             ELSE IF second.raised
             THEN out(customer_data, st2, <<>>, TRUE, "raised", extracted, second)
             ELSE IF second.info # <<>>
             THEN out(WithCity(customer_data, second.info[1]),
                      Inc(st2, "cities_standardized"), second.info, FALSE,
                      "address", extracted, second)
             ELSE unknown(st2, extracted, second)
        Extracted(first, state_info, extracted) ==
            Steps(first, state_info, extracted,
                  GetCityInfoFuzzy(extracted, country_hint))
    IN Extracted(GetCityInfoFuzzy(city_name, country_hint),
                 get_state_by_name(city_name),
                 parse_city_from_address(address))

\* a city fallback that re-resolves the city's country code through the
\* country table, as ComprehensiveStandardizer does
CountryFromCityByTable(city_info, st, best) ==
    IF city_info # <<>> /\ Truthy(city_info[1].country)
       /\ Truthy(get_country_display_by_code(city_info[1].country))
    THEN [raised |-> FALSE, code |-> city_info[1].country,
          display |-> get_country_display_by_code(city_info[1].country),
          stats |-> Inc(st, "countries_from_city_fallback"),
          path |-> "city", best |-> best]
    ELSE [raised |-> FALSE, code |-> None, display |-> None, stats |-> st,
          path |-> "none", best |-> best]

\* a city fallback that is taken only until it has been counted once
CountryFromCityOnce(city_info, st, best) ==
    IF city_info # <<>>
       /\ Truthy(city_info[1].country) /\ Truthy(city_info[1].country_name)
       /\ st.countries_from_city_fallback = 0
    THEN [raised |-> FALSE, code |-> city_info[1].country,
          display |-> city_info[1].country_name,
          stats |-> Inc(st, "countries_from_city_fallback"),
          path |-> "city", best |-> best]
    ELSE [raised |-> FALSE, code |-> None, display |-> None, stats |-> st,
          path |-> "none", best |-> best]

\* the city fallback of _standardize_country_with_fuzzy_fallback
CountryFromCity(city_info, st, best) ==
    IF city_info # <<>>
       /\ Truthy(city_info[1].country) /\ Truthy(city_info[1].country_name)
    THEN [raised |-> FALSE, code |-> city_info[1].country,
          display |-> city_info[1].country_name,
          stats |-> Inc(st, "countries_from_city_fallback"),
          path |-> "city", best |-> best]
    ELSE [raised |-> FALSE, code |-> None, display |-> None, stats |-> st,
          path |-> "none", best |-> best]

\* a country stage that takes the resolved city's country before it looks
\* at the country text
StandardizeCountryCityFirst(country_name, city_info, st) ==
    IF city_info # <<>> \/ ~Truthy(country_name)
    THEN CountryFromCity(city_info, st, <<>>)
    ELSE IF Raises(country_name)
    THEN [raised |-> TRUE, code |-> None, display |-> None, stats |-> st,
          path |-> "raised", best |-> <<>>]
    ELSE IF Truthy(get_country_code(country_name))
            /\ Truthy(get_country_display(country_name))
    THEN [raised |-> FALSE, code |-> get_country_code(country_name),
          display |-> get_country_display(country_name),
          stats |-> Inc(st, "countries_standardized"),
          path |-> "exact", best |-> <<>>]
    ELSE [raised |-> FALSE, code |-> None, display |-> None,
          stats |-> AddUnknown(st, "unknown_countries", country_name),
          path |-> "none", best |-> <<>>]

\* _standardize_country_with_fuzzy_fallback: the pair returned, the stats
\* after it, the branch that returned and what extractOne returned
StandardizeCountry(country_name, city_info, st) ==
    IF ~Truthy(country_name) THEN CountryFromCity(city_info, st, <<>>)
    ELSE IF Raises(country_name)
    THEN [raised |-> TRUE, code |-> None, display |-> None, stats |-> st,
          path |-> "raised", best |-> <<>>]
    ELSE
      LET Fuzzy(best_match) ==
              LET country_data == ValueOf(fuzzy.country_mapping,
                                          best_match[1].name)
              IN IF best_match # <<>>
                 THEN [raised |-> FALSE, code |-> country_data.iso3,
                       display |-> country_data.display,
                       stats |-> Inc(st, "countries_fuzzy_matched"),
                       path |-> "fuzzy", best |-> best_match]
                 ELSE CountryFromCity(city_info,
                          AddUnknown(st, "unknown_countries", country_name),
                          best_match)
          Direct(country_code, country_display) ==
              IF Truthy(country_code) /\ Truthy(country_display)
              THEN [raised |-> FALSE, code |-> country_code,
                    display |-> country_display,
                    stats |-> Inc(st, "countries_standardized"),
                    path |-> "exact", best |-> <<>>]
              ELSE Fuzzy(ExtractOne(Normalize(country_name),
                                    fuzzy.country_names, country_threshold))
      IN Direct(get_country_code(country_name),
                get_country_display(country_name))

\* the city fallback of _standardize_state_with_fuzzy_fallback
StateFromCity(city_info, st, best) ==
    IF city_info # <<>> /\ city_info[1].state_id # 0
       /\ Truthy(get_state_iso3166_2_by_id(city_info[1].state_id))
       /\ Truthy(city_info[1].state_name)
    THEN [raised |-> FALSE,
          code |-> get_state_iso3166_2_by_id(city_info[1].state_id),
          display |-> city_info[1].state_name,
          stats |-> Inc(st, "states_from_city_fallback"),
          path |-> "city", best |-> best]
    ELSE [raised |-> FALSE, code |-> None, display |-> None, stats |-> st,
          path |-> "none", best |-> best]

\* _standardize_state_with_fuzzy_fallback
StandardizeState(state_name, city_info, st) ==
    IF ~Truthy(state_name) THEN StateFromCity(city_info, st, <<>>)
    ELSE IF Raises(state_name)
    THEN [raised |-> TRUE, code |-> None, display |-> None, stats |-> st,
          path |-> "raised", best |-> <<>>]
    ELSE
      LET Fuzzy(best_match) ==
              LET state_data == ValueOf(fuzzy.state_mapping,
                                        best_match[1].name)
              IN IF best_match # <<>>
                 THEN [raised |-> FALSE, code |-> state_data.code,
                       display |-> state_data.display,
                       stats |-> Inc(st, "states_fuzzy_matched"),
                       path |-> "fuzzy", best |-> best_match]
                 ELSE StateFromCity(city_info,
                          AddUnknown(st, "unknown_states", state_name),
                          best_match)
          Direct(state_code, state_display) ==
              IF Truthy(state_code) /\ Truthy(state_display)
              THEN [raised |-> FALSE, code |-> state_code,
                    display |-> state_display,
                    stats |-> Inc(st, "states_standardized"),
                    path |-> "exact", best |-> <<>>]
              ELSE Fuzzy(ExtractOne(Normalize(state_name),
                                    fuzzy.state_names, state_threshold))
      IN Direct(get_state_code(state_name), get_state_display(state_name))

\* if country_code and country_display: customer_data['countryCode'] = ...
WithCountry(customer_data, k) ==
    IF Truthy(k.code) /\ Truthy(k.display)
    THEN [customer_data EXCEPT !.countryCode = k.code,
                               !.countryDisplay = k.display]
    ELSE customer_data

\* a state write that leaves the display name as the city step wrote it
WithStateCodeOnly(customer_data, s) ==
    IF Truthy(s.code) /\ Truthy(s.display)
    THEN [customer_data EXCEPT !.stateCode = s.code,
                               !.stateDisplay =
                                   IF Truthy(@) THEN @ ELSE s.display]
    ELSE customer_data

\* if state_code and state_display: customer_data['stateCode'] = ...
WithState(customer_data, s) ==
    IF Truthy(s.code) /\ Truthy(s.display)
    THEN [customer_data EXCEPT !.stateCode = s.code,
                               !.stateDisplay = s.display]
    ELSE customer_data

NotRun == [raised |-> FALSE, code |-> None, display |-> None,
           path |-> "notrun", best |-> <<>>]

\* what a stage helper returned, without the stats it left
Returned(r) == [raised |-> r.raised, code |-> r.code, display |-> r.display,
                path |-> r.path, best |-> r.best]

\* standardize_customer_data(customer_data) with self.stats = st: the dict
\* as the call leaves it, the stats after it, and the locals of the call.
\* An exception ends the call where it is raised.
StandardizeCustomerData(customer_data, st) ==
    LET Steps(c, k, s) ==
          LET
            rec2 == WithCountry(c.rec, k)
            rec3 == WithState(rec2, s)
            city == [path |-> c.path, city_info |-> c.city_info,
                     first |-> c.first, extracted |-> c.extracted,
                     second |-> c.second]
            locals(raised, country, state) ==
                [input |-> customer_data, before |-> st, raised |-> raised,
                 city |-> city, country |-> country, state |-> state]
          IN IF c.raised
             THEN [rec |-> c.rec, stats |-> c.stats,
                   call |-> locals(TRUE, NotRun, NotRun)]
             ELSE IF k.raised
             THEN [rec |-> c.rec, stats |-> k.stats,
                   call |-> locals(TRUE, Returned(k), NotRun)]
             ELSE IF s.raised
             THEN [rec |-> rec2, stats |-> s.stats,
                   call |-> locals(TRUE, Returned(k), Returned(s))]
             ELSE [rec |-> rec3, stats |-> s.stats,
                   call |-> locals(FALSE, Returned(k), Returned(s))]
        Step3(c, k) ==
            Steps(c, k, StandardizeState(customer_data.state, c.city_info,
                                         k.stats))
        Step2(c) ==
            Step3(c, StandardizeCountry(customer_data.country, c.city_info,
                                        c.stats))
    IN Step2(CityStep(customer_data, st))

(***************************************************************************)
(* Input records                                                           *)
(***************************************************************************)
Blank == <<" ">>

\* name without its last n characters
Drop(name, n) == SubSeq(name, 1, Len(name) - n)

\* the names, each also mistyped by dropping up to MaxDrop characters
WithMistyped(names) ==
    names \cup {Drop(name, n) : name \in names, n \in 1..MaxDrop}

\* values every field may hold besides a name: absent, empty,
\* whitespace-only, not a text
NoNames == {None, <<>>, Blank, NonText}

CountryInputs ==
    NoNames
    \cup WithMistyped({India.display, Peru.display})
    \cup {LomeCity.country_name, <<"I","N">>}

StateInputs ==
    NoNames
    \cup WithMistyped({Goa.display, Puno.display})
    \cup {<<"X","y","z">>}

CityInputs ==
    NoNames
    \cup WithMistyped({PuneCity.display, PunoCity.display, LomeCity.display,
                       Goa.display})
    \cup {<<"X","y","z">>}

AddressInputs ==
    NoNames
    \cup { <<"1"," ","s","t",","," ","L","o","m","e",","," ","G","o","a">>,
           <<"1"," ","s","t",","," ","P","u","n","e">> }

\* a row as the ingest loop hands it to standardize: no output field yet
NewRecord(country, state, city, address) ==
    [company |-> <<"A","c","m","e">>,
     country |-> country, state |-> state, city |-> city, address |-> address,
     countryCode |-> None, countryDisplay |-> None,
     stateCode |-> None, stateDisplay |-> None,
     cityCode |-> None, cityDisplay |-> None]

NoRecord == <<>>
NoCall == <<>>
NoWorkers == <<>>

(***************************************************************************)
(* The state machine                                                       *)
(***************************************************************************)
Init ==
    /\ pc = "unloaded"
    /\ snapshot \in Snapshots
    /\ country_mappings = EmptyDict
    /\ state_mappings = EmptyDict
    /\ city_mappings = EmptyDict
    /\ fuzzy = <<>>
    /\ stats = InitialStats
    /\ rec = NoRecord
    /\ call = NoCall
    /\ rows = 0
    /\ workers = NoWorkers
    /\ full_cities_loader = <<>>
    /\ callers = [t \in Callers |-> [pc |-> "start", built |-> <<>>,
                                     got |-> <<>>]]

\* get_full_cities_loader(): FullCitiesDataLoader.__init__ and load_all_data
LoadAllData ==
    /\ pc = "unloaded"
    /\ pc' = "loaded"
    /\ country_mappings' =
           AddVariations(load_countries(country_mappings, snapshot.countries),
                         country_variations)
    /\ state_mappings' =
           AddVariations(load_states(state_mappings, snapshot.states),
                         us_state_variations)
    /\ city_mappings' = load_all_cities(city_mappings, snapshot.cities)
    /\ UNCHANGED <<snapshot, fuzzy, stats, rec, call, rows, workers,
                   full_cities_loader, callers>>

\* FuzzyStandardizer.__init__: the module-level instance
NewFuzzyStandardizer ==
    /\ pc = "loaded"
    /\ pc' = "ready"
    /\ fuzzy' = BuildFuzzyLookupLists
    /\ stats' = InitialStats
    /\ UNCHANGED <<snapshot, country_mappings, state_mappings, city_mappings,
                   rec, call, rows, workers,
                   full_cities_loader, callers>>

\* standardize_customer_data_fuzzy(customer_data) on a row of the ingest loop
Standardize ==
    /\ pc = "ready"
    /\ \E country \in CountryInputs, state \in StateInputs,
          city \in CityInputs, address \in AddressInputs :
          \E r \in {StandardizeCustomerData(
                        NewRecord(country, state, city, address), stats)} :
             /\ rec' = r.rec
             /\ stats' = r.stats
             /\ call' = r.call
    /\ pc' = "returned"
    /\ rows' = rows + 1
    /\ UNCHANGED <<snapshot, country_mappings, state_mappings, city_mappings,
                   fuzzy, workers,
                   full_cities_loader, callers>>

Next == LoadAllData \/ NewFuzzyStandardizer \/ Standardize

Spec == Init /\ [][Next]_vars

(***************************************************************************)
(* Properties                                                              *)
(***************************************************************************)
\* a standardize call has returned normally
Done == pc = "returned" /\ ~call.raised

\* the row as it was handed to the call
In == call.input

\* the three snapshot files are all there
Complete ==
    snapshot.countries # <<>> /\ snapshot.states # <<>> /\ snapshot.cities # <<>>

InvalidValues == {<<>>, Blank, NonText}
Fields == {"country", "state", "city", "address"}

\* every field of the row is absent or a text with something in it
WellFormed == \A f \in Fields : In[f] \notin InvalidValues

\* a call on a well-formed row over a complete snapshot has returned
Regular == Done /\ Complete /\ WellFormed

\* the city the city step resolved (defined when Resolved)
Resolved == call.city.city_info # <<>>
C == call.city.city_info[1]

\* the field's text is resolved by the exact ("direct") lookup
CountryDirect ==
    /\ Truthy(In.country) /\ IsText(In.country)
    /\ Truthy(get_country_code(In.country))
    /\ Truthy(get_country_display(In.country))
StateDirect ==
    /\ Truthy(In.state) /\ IsText(In.state)
    /\ Truthy(get_state_code(In.state))
    /\ Truthy(get_state_display(In.state))

\* the fuzzy matcher has a candidate for the field's text
CountryFuzzy ==
    /\ Truthy(In.country) /\ IsText(In.country)
    /\ ExtractOne(Normalize(In.country), fuzzy.country_names,
                  country_threshold) # <<>>
StateFuzzy ==
    /\ Truthy(In.state) /\ IsText(In.state)
    /\ ExtractOne(Normalize(In.state), fuzzy.state_names,
                  state_threshold) # <<>>

\* C1 as claimed: whenever the city step resolves a city C and the country
\* field is absent or misses the direct lookup, countryCode is C's
\* denormalized country code.
C1_Original ==
    (Regular /\ Resolved /\ ~CountryDirect) => rec.countryCode = C.country

\* C1 as amended: whenever the city step resolves a city C whose country code
\* and country name are non-empty, and the country field is absent or misses
\* both the direct lookup and the fuzzy match, countryCode is C's
\* denormalized country code and countryDisplay C's country name.
C1_CountryFromResolvedCity ==
    (Done /\ Resolved /\ ~CountryDirect /\ ~CountryFuzzy
          /\ Truthy(C.country) /\ Truthy(C.country_name))
    => (rec.countryCode = C.country /\ rec.countryDisplay = C.country_name)

\* a country text that nothing matches, filled in from the resolved city
C1_Witness ==
    /\ Regular /\ Resolved /\ Truthy(In.country)
    /\ ~CountryDirect /\ ~CountryFuzzy
    /\ rec.countryCode = C.country
    /\ get_country_display_by_code(C.country) = None

\* C2: whenever the city step resolves a city C (here: one whose state id is
\* in the state table) and the state field is absent or misses the direct
\* lookup, stateCode is the short state code carried on C's record.
C2_Original ==
    (Regular /\ Resolved /\ ~StateDirect
             /\ Truthy(get_state_iso3166_2_by_id(C.state_id)))
    => rec.stateCode = C.state

\* C3: when a city is resolved and the country (resp. state) field is absent,
\* the city fallback yields a country (resp. state) result taken from the
\* city's denormalized fields, also when the city's country code / state id
\* is not in the country / state table.
C3_Original ==
    (Regular /\ Resolved)
    => /\ (In.country = None /\ Truthy(C.country) /\ Truthy(C.country_name))
             => (rec.countryCode = C.country
                 /\ rec.countryDisplay = C.country_name)
       /\ (In.state = None /\ Truthy(C.state) /\ Truthy(C.state_name))
             => (rec.stateCode # None /\ rec.stateDisplay = C.state_name)

\* C4: a call (here: one whose city text is not taken for a state) records
\* the raw country (resp. state) text as unknown exactly when it leaves
\* countryCode (resp. stateCode) null; a value resolved by the city fallback
\* is never recorded as unknown.
C4_Original ==
    (Regular /\ call.city.path # "state")
    => /\ Truthy(In.country)
             => ((In.country \in stats.unknown_countries)
                 <=> (rec.countryCode = None /\ rec.countryDisplay = None))
       /\ Truthy(In.state)
             => ((In.state \in stats.unknown_states)
                 <=> (rec.stateCode = None /\ rec.stateDisplay = None))

\* the last (up to three) comma-separated parts of the address
TrailingParts(address) == LastParts(Normalize(address), <<",">>)

\* C5: for a record without city whose address has an exact city name among
\* its trailing comma-separated parts, standardize outputs that city's
\* cityCode.
C5_Original ==
    (Regular /\ In.city = None /\ Truthy(In.address) /\ IsText(In.address)
          /\ \E i \in DOMAIN TrailingParts(In.address) :
                 get_city_info(TrailingParts(In.address)[i]) # <<>>)
    => \E i \in DOMAIN TrailingParts(In.address) :
           /\ get_city_info(TrailingParts(In.address)[i]) # <<>>
           /\ rec.cityCode = get_city_info(TrailingParts(In.address)[i])[1].code

\* the state the text is a typo of: no state name itself, but similar to one
\* at or above the state threshold
TypoOfState(text) ==
    IF Truthy(text) /\ IsText(text)
       /\ ~HasKey(state_mappings, Normalize(text))
    THEN ExtractOne(Normalize(text), state_mappings.keys, state_threshold)
    ELSE <<>>

\* C6 as claimed: a city text that is a typo of a state name, with the state
\* field null, yields that state's stateCode and no cityCode.
C6_Original ==
    (Regular /\ In.state = None /\ TypoOfState(In.city) # <<>>)
    => LET state == ValueOf(state_mappings, TypoOfState(In.city)[1].name)
       IN /\ rec.stateCode \in {state.code, state.iso3166_2}
          /\ rec.cityCode = None

\* C6 as amended: for a city text that is a typo of a state name, with the
\* state field null, the misclassification check (an exact lookup among the
\* state names, made after the exact and the fuzzy city match missed) does
\* not succeed; unless a city is resolved (by the fuzzy match or from the
\* address) stateCode and cityCode stay null and the city text is recorded
\* as unknown.
C6_TypoOfStateIsNoState ==
    (Done /\ In.state = None /\ TypoOfState(In.city) # <<>>)
    => /\ call.city.path # "state"
       /\ ~Resolved => /\ rec.stateCode = None
                       /\ rec.cityCode = None
                       /\ In.city \in stats.unknown_cities

\* a typo of a state name that resolves nothing
C6_Witness ==
    /\ Regular /\ In.state = None /\ TypoOfState(In.city) # <<>>
    /\ ~Resolved /\ call.city.first.best = <<>>
    /\ rec.stateCode = None

\* the score of a city name of the corpus for the city text
CityScore(name) == Ratio(FullProcess(Normalize(In.city)), FullProcess(name))

\* C7: for a misspelled city and a country value, when a city of the record's
\* country and a city of another country both have the best fuzzy score, at
\* or above the city threshold, the city of the record's country is
\* resolved, whatever their order in the corpus.
C7_Original ==
    (Regular /\ Truthy(In.city) /\ IsText(In.city) /\ get_city_info(In.city) = <<>>
          /\ Truthy(In.country) /\ IsText(In.country))
    => \A a, b \in DOMAIN fuzzy.city_names :
         LET name_a == fuzzy.city_names[a]
             name_b == fuzzy.city_names[b]
             city_a == ValueOf(fuzzy.city_mapping, name_a)
             city_b == ValueOf(fuzzy.city_mapping, name_b)
         IN (/\ CityScore(name_a) = CityScore(name_b)
             /\ CityScore(name_a) >= city_threshold
             /\ \A n \in DOMAIN fuzzy.city_names :
                    CityScore(fuzzy.city_names[n]) <= CityScore(name_a)
             /\ CountryOverlaps(In.country, city_a.country_name)
             /\ ~CountryOverlaps(In.country, city_b.country_name))
            => rec.cityCode = city_a.code

Outputs(r) == <<r.countryCode, r.countryDisplay, r.stateCode, r.stateDisplay,
                r.cityCode, r.cityDisplay>>

\* C8: a field value that is empty, whitespace-only or no text is handled as
\* if the field were absent: no error, the same output fields, the same
\* diagnostics.
C8_Original ==
    (pc = "returned" /\ Complete)
    => \A f \in Fields :
         (/\ In[f] \in InvalidValues
          /\ \A g \in Fields \ {f} : In[g] \notin InvalidValues)
         => LET absent == StandardizeCustomerData([In EXCEPT ![f] = None],
                                                  call.before)
            IN /\ ~call.raised
               /\ Outputs(rec) = Outputs(absent.rec)
               /\ stats = absent.stats

\* C9: no store is returned, or used for matching, with one of its three
\* tables empty.
C9_Original ==
    pc \in {"loaded", "ready", "returned"}
    => /\ country_mappings.keys # <<>>
       /\ state_mappings.keys # <<>>
       /\ city_mappings.keys # <<>>

\* the candidate extractOne returned scores at least the threshold for text
AtLeast(best, text, threshold) ==
    best # <<>>
    => /\ best[1].score >= threshold
       /\ Ratio(FullProcess(Normalize(text)), FullProcess(best[1].name))
              >= threshold

\* extractOne returned nothing for text only if no name reaches the threshold
NoneReaches(best, text, names, threshold) ==
    best = <<>>
    => \A i \in DOMAIN names :
           Ratio(FullProcess(Normalize(text)), FullProcess(names[i])) < threshold

\* the fuzzy matcher of the stage ran: the text is there and the exact lookup
\* missed
CityFuzzyRan ==
    Truthy(In.city) /\ IsText(In.city) /\ get_city_info(In.city) = <<>>
CountryFuzzyRan == call.country.path \in {"fuzzy", "city", "none"}
                   /\ Truthy(In.country)
StateFuzzyRan == call.state.path \in {"fuzzy", "city", "none"}
                 /\ Truthy(In.state)

\* C10: every candidate a fuzzy match returns (for the city text, for the
\* part extracted from the address, for the country and for the state) has
\* a similarity to the normalized input of at least the class's threshold
\* (85 country, 80 state, 75 city), and a fuzzy match that ran returns
\* nothing only when no name of its class reaches the threshold.
C10_FuzzyAtLeastThreshold ==
    pc = "returned"
    => /\ AtLeast(call.city.first.best, In.city, city_threshold)
       /\ AtLeast(call.city.second.best, call.city.extracted, city_threshold)
       /\ AtLeast(call.country.best, In.country, country_threshold)
       /\ AtLeast(call.state.best, In.state, state_threshold)
       /\ CityFuzzyRan
             => NoneReaches(call.city.first.best, In.city, fuzzy.city_names,
                            city_threshold)
       /\ CountryFuzzyRan
             => NoneReaches(call.country.best, In.country,
                            fuzzy.country_names, country_threshold)
       /\ StateFuzzyRan
             => NoneReaches(call.state.best, In.state, fuzzy.state_names,
                            state_threshold)

\* a call in which the three fuzzy matchers each returned a candidate
C10_Witness ==
    /\ Regular
    /\ call.city.first.best # <<>>
    /\ call.country.path = "fuzzy" /\ call.country.best # <<>>
    /\ call.state.path = "fuzzy" /\ call.state.best # <<>>

\* the score of a name of a corpus list for a text
ScoreOf(text, name) == Ratio(FullProcess(Normalize(text)), FullProcess(name))

\* what extractOne returned for text is the first name of the list among
\* those of the highest score
FirstOfBest(best, text, names) ==
    best # <<>>
    => \E i \in DOMAIN names :
          /\ names[i] = best[1].name
          /\ \A j \in DOMAIN names :
                /\ ScoreOf(text, names[j]) <= ScoreOf(text, names[i])
                /\ j < i => ScoreOf(text, names[j]) < ScoreOf(text, names[i])

\* the names of a snapshot file in the file's order (none when it is missing)
FileNames(file) == IF file = <<>> THEN <<>> ELSE file[1].keys

\* list begins with the names of the file, in the file's order
FileOrder(list, file) ==
    /\ Len(FileNames(file)) <= Len(list)
    /\ SubSeq(list, 1, Len(FileNames(file))) = FileNames(file)

\* C11: a fuzzy match that returns a candidate returns the first name of its
\* class's corpus list among those that share the highest score, and each
\* corpus list is the snapshot file's names in the file's order (the country
\* and state lists followed by the aliases), so the same on every run over
\* the same snapshot.
C11_FirstOfTiedWins ==
    pc \in {"ready", "returned"}
    => /\ FileOrder(fuzzy.country_names, snapshot.countries)
       /\ FileOrder(fuzzy.state_names, snapshot.states)
       /\ fuzzy.city_names = FileNames(snapshot.cities)
       /\ pc = "returned"
             => /\ FirstOfBest(call.city.first.best, In.city, fuzzy.city_names)
                /\ FirstOfBest(call.city.second.best, call.city.extracted,
                               fuzzy.city_names)
                /\ FirstOfBest(call.country.best, In.country,
                               fuzzy.country_names)
                /\ FirstOfBest(call.state.best, In.state, fuzzy.state_names)

\* a fuzzy city match with two names of the highest score, won by the first
C11_Witness ==
    /\ Regular
    /\ call.city.first.best # <<>>
    /\ \E i, j \in DOMAIN fuzzy.city_names :
          /\ i < j
          /\ fuzzy.city_names[i] = call.city.first.best[1].name
          /\ ScoreOf(In.city, fuzzy.city_names[j])
                = call.city.first.best[1].score

\* the row's only geographic field is f
OnlyField(f) == In[f] # None /\ \A g \in Fields \ {f} : In[g] = None

\* the entries of a table
Entries(mappings) == {mappings.val[i] : i \in DOMAIN mappings.val}

UpperChar(c) ==
    IF \E i \in DOMAIN LowerCase : LowerCase[i] = c
    THEN UpperCase[CHOOSE i \in DOMAIN LowerCase : LowerCase[i] = c]
    ELSE c

\* str.upper()
Upper(s) == [i \in DOMAIN s |-> UpperChar(s[i])]

\* the ways a text is written: as it is, in capitals, in small letters, and
\* each of these with a blank before it, after it, or both
Spellings(text) ==
    LET cased == {text, Upper(text), Lower(text)}
    IN cased \cup {<<" ">> \o t : t \in cased}
             \cup {t \o <<" ">> : t \in cased}
             \cup {<<" ">> \o t \o <<" ">> : t \in cased}

LookupTexts ==
    {<<>>, Blank}
    \cup UNION {Spellings(name) :
                  name \in {India.display, Peru.display, Goa.display,
                            PuneCity.display, PunoCity.display,
                            LomeCity.display, <<"i","n">>, <<"X","y","z">>}}

\* what every exact lookup of the loader returns for a text
ExactLookups(text) ==
    [country_code    |-> get_country_code(text),
     country_display |-> get_country_display(text),
     state_code      |-> get_state_code(text),
     state_display   |-> get_state_display(text),
     state           |-> get_state_by_name(text),
     city_code       |-> get_city_code(text),
     city_display    |-> get_city_display(text),
     city_info       |-> get_city_info(text)]

\* a caller looks a text up, and its normalized form
Lookup ==
    /\ pc \in {"loaded", "looked"}
    /\ pc' = "looked"
    /\ \E text \in LookupTexts :
          call' = [text       |-> text,
                   found      |-> ExactLookups(text),
                   normalized |-> ExactLookups(Strip(Lower(text)))]
    /\ UNCHANGED <<snapshot, country_mappings, state_mappings, city_mappings,
                   fuzzy, stats, rec, rows, workers,
                   full_cities_loader, callers>>

NextLookup == LoadAllData \/ Lookup

SpecLookup == Init /\ [][NextLookup]_vars

\* C13: for every text and each entity class, the exact lookup of the text
\* returns what the exact lookup of trim(lower(text)) returns, hit or miss.
C13_LookupOfNormalized ==
    pc = "looked" => call.found = call.normalized

\* a text in capitals between blanks that the city lookup finds
C13_Witness ==
    /\ pc = "looked"
    /\ call.text = Upper(call.text)
    /\ Len(call.text) = Len(Strip(call.text)) + 2
    /\ call.found.city_info # <<>>

(***************************************************************************)
(* Aliases                                                                 *)
(***************************************************************************)
\* the alias is a key with the entry of its canonical name when that name is
\* in the snapshot file, and no key the file did not bring otherwise
AliasesOf(mappings, variations, file) ==
    \A i \in DOMAIN variations :
        LET alias    == variations[i][1]
            standard == variations[i][2]
        IN IF standard \in Range(FileNames(file))
           THEN /\ HasKey(mappings, alias)
                /\ DictGet(mappings, alias) = DictGet(mappings, standard)
           ELSE HasKey(mappings, alias) => alias \in Range(FileNames(file))

\* the country alias the row's country text normalizes to, if any
AliasOfCountry ==
    {i \in DOMAIN country_variations :
        /\ Truthy(In.country) /\ IsText(In.country)
        /\ country_variations[i][1] = Normalize(In.country)
        /\ HasKey(country_mappings, country_variations[i][2])}

\* C14: after load every alias whose canonical name is in the snapshot looks
\* up the same entry as the canonical name, so a row whose country is such an
\* alias gets the canonical entry's iso3 and display; an alias whose canonical
\* name is absent is not added.
C14_AliasResolvesAsCanonical ==
    /\ pc # "unloaded" =>
          /\ AliasesOf(country_mappings, country_variations, snapshot.countries)
          /\ AliasesOf(state_mappings, us_state_variations, snapshot.states)
    /\ Regular =>
          \A i \in AliasOfCountry :
              LET e == ValueOf(country_mappings, country_variations[i][2])
              IN /\ rec.countryCode = e.iso3
                 /\ rec.countryDisplay = e.display

\* a row with country "IN" got India's iso3 and display
C14_Witness ==
    /\ Regular
    /\ AliasOfCountry # {}
    /\ In.country # Normalize(In.country)
    /\ rec.countryCode = India.iso3
    /\ rec.countryDisplay = India.display

(***************************************************************************)
(* The ingest loop: rows standardized one after another on the one         *)
(* module-level instance, whose stats accumulate over the rows             *)
(***************************************************************************)
BatchRows ==
    {NewRecord(country, state, city, None) :
        country \in {None, LomeCity.country_name, Drop(India.display, 1),
                     India.display},
        state \in {None, <<"X","y","z">>, Goa.display},
        city \in {None, Drop(PuneCity.display, 1), PuneCity.display}}

\* run_from_csv: the next row of the frame goes through
\* standardize_customer_data_fuzzy; an exception ends the loop
StandardizeRow ==
    /\ pc \in {"ready", "looked"} \/ (pc = "returned" /\ ~call.raised)
    /\ rows < MaxRows
    /\ \E row \in BatchRows :
          \E r \in {StandardizeCustomerData(row, stats)} :
             /\ rec' = r.rec
             /\ stats' = r.stats
             /\ call' = r.call
    /\ pc' = "returned"
    /\ rows' = rows + 1
    /\ UNCHANGED <<snapshot, country_mappings, state_mappings, city_mappings,
                   fuzzy, workers,
                   full_cities_loader, callers>>

NextBatch == LoadAllData \/ NewFuzzyStandardizer \/ StandardizeRow

SpecBatch == Init /\ [][NextBatch]_vars

\* the six output fields a call on the row leaves when the instance's
\* diagnostics are st
OutputsWith(row, st) == Outputs(StandardizeCustomerData(row, st).rec)

\* C15: the six output fields depend only on the row and the loaded store:
\* whatever the counters and unknown sets hold from the rows before, the
\* same row gets the same outputs as on a fresh instance.
C15_OutputsIgnoreDiagnostics ==
    pc = "returned" =>
        /\ Outputs(rec) = OutputsWith(In, InitialStats)
        /\ Outputs(rec) = OutputsWith(In, stats)

\* a second row whose country text was already recorded as unknown and
\* whose city fallback was already counted, resolved from its city
C15_Witness ==
    /\ pc = "returned"
    /\ rows = MaxRows
    /\ In.country \in call.before.unknown_countries
    /\ call.before.countries_from_city_fallback > 0
    /\ call.country.path = "city"
    /\ Truthy(rec.countryCode)

(***************************************************************************)
(* Workers on the shared instance.  Each worker runs one call of           *)
(* standardize_customer_data_fuzzy on a row of its own.  The call's        *)
(* decisions read only the row and the store, so its updates of self.stats *)
(* are known from the row; self.stats[counter] += 1 is a read of the       *)
(* counter followed by a write of the value read plus one, with nothing    *)
(* that keeps another worker from running in between; set.add is one step. *)
(***************************************************************************)
Workers == 1..NumWorkers

UnknownSets == {"unknown_countries", "unknown_states", "unknown_cities"}

\* the order in which each stage reaches its updates of self.stats
CityOrder == <<"cities_fuzzy_matched", "unknown_cities",
               "cities_standardized", "states_standardized">>
CountryOrder == <<"countries_standardized", "countries_fuzzy_matched",
                  "unknown_countries", "countries_from_city_fallback">>
StateOrder == <<"states_standardized", "states_fuzzy_matched",
                "unknown_states", "states_from_city_fallback">>

\* the updates that took the stats from before to after, in the stage's order
StageOps(before, after, order) ==
    LET changed == SelectSeq(order, LAMBDA k : after[k] # before[k])
    IN [i \in DOMAIN changed |->
          IF changed[i] \in UnknownSets
          THEN [kind |-> "add", key |-> changed[i],
                raw |-> CHOOSE v \in after[changed[i]] \ before[changed[i]] :
                            TRUE]
          ELSE [kind |-> "inc", key |-> changed[i], raw |-> None]]

\* the updates of self.stats one call on the row makes, in order
OpsOf(row) ==
    LET Ops(c) ==
          LET OpsK(k) ==
                StageOps(InitialStats, c.stats, CityOrder)
                \o StageOps(InitialStats, k.stats, CountryOrder)
                \o StageOps(InitialStats,
                            StandardizeState(row.state, c.city_info,
                                             InitialStats).stats,
                            StateOrder)
          IN OpsK(StandardizeCountry(row.country, c.city_info, InitialStats))
    IN Ops(CityStep(row, InitialStats))

WorkerRows ==
    { NewRecord(India.display, None, PuneCity.display, None),
      NewRecord(Drop(India.display, 1), Goa.display, None, None),
      NewRecord(LomeCity.country_name, None, <<"X","y","z">>, None) }

\* the workers are started, each on a row of its own
StartWorkers ==
    /\ pc = "ready"
    /\ pc' = "working"
    /\ \E row \in [Workers -> WorkerRows] :
          workers' = [w \in Workers |->
                        [row |-> row[w], ops |-> OpsOf(row[w]),
                         loaded |-> <<>>]]
    /\ UNCHANGED <<snapshot, country_mappings, state_mappings, city_mappings,
                   fuzzy, stats, rec, call, rows,
                   full_cities_loader, callers>>

Pending(w, kind) ==
    /\ pc = "working"
    /\ workers[w].ops # <<>>
    /\ Head(workers[w].ops).kind = kind

\* self.stats[counter] += 1, the read
LoadCounter(w) ==
    /\ Pending(w, "inc")
    /\ workers[w].loaded = <<>>
    /\ workers' = [workers EXCEPT
                     ![w].loaded = <<stats[Head(workers[w].ops).key]>>]
    /\ UNCHANGED <<pc, snapshot, country_mappings, state_mappings,
                   city_mappings, fuzzy, stats, rec, call, rows,
                   full_cities_loader, callers>>

\* self.stats[counter] += 1, the write
StoreCounter(w) ==
    /\ Pending(w, "inc")
    /\ workers[w].loaded # <<>>
    /\ stats' = [stats EXCEPT ![Head(workers[w].ops).key] =
                                  workers[w].loaded[1] + 1]
    /\ workers' = [workers EXCEPT ![w].loaded = <<>>,
                                  ![w].ops = Tail(@)]
    /\ UNCHANGED <<pc, snapshot, country_mappings, state_mappings,
                   city_mappings, fuzzy, rec, call, rows,
                   full_cities_loader, callers>>

\* self.stats[unknowns].add(raw)
AddRaw(w) ==
    /\ Pending(w, "add")
    /\ stats' = AddUnknown(stats, Head(workers[w].ops).key,
                           Head(workers[w].ops).raw)
    /\ workers' = [workers EXCEPT ![w].ops = Tail(@)]
    /\ UNCHANGED <<pc, snapshot, country_mappings, state_mappings,
                   city_mappings, fuzzy, rec, call, rows,
                   full_cities_loader, callers>>

NextWorkers ==
    \/ LoadAllData
    \/ NewFuzzyStandardizer
    \/ StartWorkers
    \/ \E w \in Workers : LoadCounter(w)
    \/ \E w \in Workers : StoreCounter(w)
    \/ \E w \in Workers : AddRaw(w)

SpecWorkers == Init /\ [][NextWorkers]_vars

\* every worker's call has returned
AllReturned == pc = "working" /\ \A w \in Workers : workers[w].ops = <<>>

\* the stats one call on the worker's row leaves on a fresh instance
Alone(w) == StandardizeCustomerData(workers[w].row, InitialStats).stats

RECURSIVE Total(_, _)
\* the resolutions of the counter's category over the rows of workers 1..n
Total(counter, n) ==
    IF n = 0 THEN 0 ELSE Alone(n)[counter] + Total(counter, n - 1)

Counters == DOMAIN InitialStats \ UnknownSets

\* C16: when several workers call standardize concurrently on the shared
\* instance, after all calls every counter equals the number of resolutions
\* of its category over all rows and every unknown set holds every raw value
\* recorded as unknown.
C16_Original ==
    (AllReturned /\ Complete) =>
        /\ \A counter \in Counters : stats[counter] = Total(counter, NumWorkers)
        /\ \A unknowns \in UnknownSets :
              \A w \in Workers : Alone(w)[unknowns] \subseteq stats[unknowns]

(***************************************************************************)
(* Standardize calls and lookup calls on the constructed store, in any     *)
(* order                                                                   *)
(***************************************************************************)
CallTexts == {India.display, <<"i","n">>, PuneCity.display, <<"X","y","z">>}

\* a lookup that also files the entry it found under the text as written
LookupCallCaching ==
    /\ pc \in {"ready", "returned", "looked"}
    /\ pc' = "looked"
    /\ \E text \in CallTexts :
          /\ call' = [text       |-> text,
                      found      |-> ExactLookups(text),
                      normalized |-> ExactLookups(Strip(Lower(text)))]
          /\ country_mappings' =
                 IF HasKey(country_mappings, Normalize(text))
                 THEN DictSet(country_mappings, text,
                              ValueOf(country_mappings, Normalize(text)))
                 ELSE country_mappings
    /\ UNCHANGED <<snapshot, state_mappings, city_mappings, fuzzy, stats, rec,
                   rows, workers,
                   full_cities_loader, callers>>

\* a caller looks a text up on the store the standardizer works on
LookupCall ==
    /\ pc \in {"ready", "returned", "looked"}
    /\ pc' = "looked"
    /\ \E text \in CallTexts :
          call' = [text       |-> text,
                   found      |-> ExactLookups(text),
                   normalized |-> ExactLookups(Strip(Lower(text)))]
    /\ UNCHANGED <<snapshot, country_mappings, state_mappings, city_mappings,
                   fuzzy, stats, rec, rows, workers,
                   full_cities_loader, callers>>

NextCalls ==
    LoadAllData \/ NewFuzzyStandardizer \/ StandardizeRow \/ LookupCall

SpecCalls == Init /\ [][NextCalls]_vars

\* C17: once the store has been constructed, no standardize call and no
\* lookup call creates, changes or deletes an entry of the country, state or
\* city table, and once the fuzzy corpora have been built from them none
\* changes them either.
C17_TablesNeverChange ==
    [][/\ pc # "unloaded" =>
             UNCHANGED <<country_mappings, state_mappings, city_mappings>>
       /\ pc \notin {"unloaded", "loaded"} => UNCHANGED fuzzy]_vars

\* after the rows of a run and a lookup that hit, the tables are those the
\* load built from the snapshot
C17_Witness ==
    /\ pc = "looked"
    /\ Complete
    /\ rows = MaxRows
    /\ stats # InitialStats
    /\ call.found.country_code # None
    /\ country_mappings =
           AddVariations(load_countries(EmptyDict, snapshot.countries),
                         country_variations)
    /\ state_mappings =
           AddVariations(load_states(EmptyDict, snapshot.states),
                         us_state_variations)
    /\ city_mappings = load_all_cities(EmptyDict, snapshot.cities)
    /\ fuzzy = BuildFuzzyLookupLists

\* the fields of the row that are no output field
Passed(r) == [f \in DOMAIN r \ {"countryCode", "countryDisplay", "stateCode",
                                "stateDisplay", "cityCode", "cityDisplay"}
                |-> r[f]]

\* C18: standardize changes no field of the row other than the six output
\* fields: country, state, city, address and every unrelated field are after
\* the call what they were before it, whether the call returns or raises.
C18_InputsUntouched ==
    pc = "returned" => /\ DOMAIN rec = DOMAIN In
                       /\ Passed(rec) = Passed(In)

\* a row with all four input texts, mistyped city, that got all six outputs
C18_Witness ==
    /\ Regular
    /\ \A f \in Fields : Truthy(In[f])
    /\ Resolved
    /\ In.city # C.display
    /\ \A i \in DOMAIN Outputs(rec) : Truthy(Outputs(rec)[i])
    /\ Outputs(In) = <<None, None, None, None, None, None>>

(***************************************************************************)
(* The country test on fuzzy city candidates                               *)
(***************************************************************************)
\* a occurs in b as a run of consecutive characters, letter case aside
Within(a, b) ==
    \E i \in 0..(Len(b) - Len(a)) :
        \A j \in 1..Len(a) : Lower(a)[j] = Lower(b)[i + j]

\* the two texts overlap as substrings, one way or the other
Overlap(a, b) == Within(a, b) \/ Within(b, a)

\* the attempt got a candidate from the fuzzy matcher
HasCandidate(attempt) ==
    attempt.best # <<>> /\ get_city_info(attempt.best[1].name) # <<>>
Candidate(attempt) == get_city_info(attempt.best[1].name)[1]

\* the attempt's candidate belongs to a country that does not overlap the
\* row's country text
Discarded(attempt) ==
    /\ Truthy(In.country)
    /\ HasCandidate(attempt)
    /\ ~Overlap(In.country, Candidate(attempt).country_name)

\* the branch a miss of the city text ends the city step in
MissPath ==
    IF get_state_by_name(In.city) # <<>> THEN "state"
    ELSE IF Truthy(In.address) /\ Truthy(parse_city_from_address(In.address))
            /\ call.city.second.info # <<>>
    THEN "address"
    ELSE "unknown"

\* C19: when the row carries a country text, a fuzzy city candidate becomes
\* the resolved city only if its country name and the row's country text
\* overlap as substrings one way or the other, letter case aside; otherwise
\* the candidate is discarded, no city is resolved from it and the city step
\* goes on with the fallbacks of a miss.
C19_CandidateNeedsCountryOverlap ==
    Regular =>
        /\ \A attempt \in {call.city.first, call.city.second} :
              /\ (Truthy(In.country) /\ HasCandidate(attempt)
                  /\ attempt.info # <<>>)
                 => Overlap(In.country, Candidate(attempt).country_name)
              /\ Discarded(attempt)
                 => attempt.info = <<>> /\ attempt.fuzzy_matched = 0
        /\ Discarded(call.city.first) => call.city.path = MissPath
        /\ Discarded(call.city.second) =>
              /\ call.city.path = "unknown"
              /\ rec.cityCode = None /\ rec.cityDisplay = None

\* a mistyped city whose best candidate lies in another country than the
\* row's: discarded, the city recorded as unknown
C19_Witness ==
    /\ Regular
    /\ Discarded(call.city.first)
    /\ call.city.first.best[1].score >= city_threshold
    /\ call.city.path = "unknown"
    /\ rec.cityCode = None
    /\ In.city \in stats.unknown_cities

\* the city text missed the exact and the fuzzy city match and is, once
\* normalized, the name of a state of the table
CityIsStateName ==
    /\ Regular
    /\ Truthy(In.city)
    /\ call.city.first.info = <<>>
    /\ get_state_by_name(In.city) # <<>>

\* C20: when the city text misses the exact and the fuzzy city match and is
\* exactly the normalized name of a known state, standardize writes that
\* state's code and display name as the state result, leaves cityCode and
\* cityDisplay unset and does not attempt the address extraction.  Stated
\* for rows without a state value, whose state stage cannot write anything.
C20_Original ==
    (CityIsStateName /\ ~Truthy(In.state)) =>
        /\ rec.stateCode = get_state_code(In.city)
        /\ rec.stateDisplay = get_state_display(In.city)
        /\ rec.cityCode = None /\ rec.cityDisplay = None
        /\ call.city.path = "state"
        /\ call.city.extracted = None

(***************************************************************************)
(* Precedence of the stages and of the paths within a stage                *)
(***************************************************************************)
\* the pair a stage returned is what the record holds for the field
CountryWritten ==
    rec.countryCode = call.country.code
    /\ rec.countryDisplay = call.country.display
StateWritten ==
    rec.stateCode = call.state.code /\ rec.stateDisplay = call.state.display

\* C21: the city stage is over before the country and the state stage run
\* (both work on the city it resolved); in each of the two stages an exact
\* hit is the result whatever the resolved city's country or state, a fuzzy
\* match is used only when the exact lookup misses, and the resolved city's
\* value only when the exact and the fuzzy lookup miss or the field is
\* absent.
C21_StagePrecedence ==
    Regular =>
        /\ CountryDirect =>
              /\ call.country.path = "exact"
              /\ rec.countryCode = get_country_code(In.country)
              /\ rec.countryDisplay = get_country_display(In.country)
        /\ StateDirect =>
              /\ call.state.path = "exact"
              /\ rec.stateCode = get_state_code(In.state)
              /\ rec.stateDisplay = get_state_display(In.state)
        /\ call.country.path = "fuzzy" =>
              ~CountryDirect /\ CountryFuzzy /\ CountryWritten
        /\ call.state.path = "fuzzy" =>
              ~StateDirect /\ StateFuzzy /\ StateWritten
        /\ call.country.path = "city" =>
              /\ Resolved /\ CountryWritten
              /\ ~Truthy(In.country) \/ (~CountryDirect /\ ~CountryFuzzy)
        /\ call.state.path = "city" =>
              /\ Resolved /\ StateWritten
              /\ ~Truthy(In.state) \/ (~StateDirect /\ ~StateFuzzy)

\* an exact country hit next to a resolved city of another country
C21_Witness ==
    /\ Regular
    /\ CountryDirect
    /\ Resolved
    /\ C.country_name # rec.countryDisplay
    /\ call.country.path = "exact"
    /\ rec.countryCode = get_country_code(In.country)

(***************************************************************************)
(* parse_city_from_address on addresses put together from parts            *)
(***************************************************************************)
AddressParts == {PuneCity.display, Goa.display, <<"1","2"," ","M","a","i","n">>}
AddressGaps == {<<","," ">>, <<";"," ">>}
AddressPrefixes == {<<>>, <<"A","d","d","r",":">>}

RECURSIVE Join(_, _, _)
\* parts[i] gaps[i] parts[i+1] ... up to the last part
Join(parts, gaps, i) ==
    IF i = Len(parts) THEN parts[i]
    ELSE parts[i] \o gaps[i] \o Join(parts, gaps, i + 1)

Addresses ==
    UNION {{prefix \o Join(parts, gaps, 1) :
               prefix \in AddressPrefixes,
               parts \in [1..n -> AddressParts],
               gaps \in [1..(n - 1) -> AddressGaps]} : n \in 1..MaxParts}

\* a caller hands an address to the loader
ParseAddress ==
    /\ pc = "loaded"
    /\ pc' = "parsed"
    /\ \E address \in Addresses :
          call' = [address   |-> address,
                   extracted |-> parse_city_from_address(address)]
    /\ UNCHANGED <<snapshot, country_mappings, state_mappings, city_mappings,
                   fuzzy, stats, rec, rows, workers,
                   full_cities_loader, callers>>

NextParse == LoadAllData \/ ParseAddress

SpecParse == Init /\ [][NextParse]_vars

\* the last three parts of the text split at the separator, each trimmed
TrailingThree(text, sep) ==
    LET parts == Split(text, sep)
    IN [i \in 1..Min(3, Len(parts)) |->
          Strip(parts[Len(parts) - Min(3, Len(parts)) + i])]

\* alphabetic, longer than two characters, an exact city or state name
Qualifies(t) ==
    /\ Len(t) > 2
    /\ \A i \in DOMAIN t : IsAlphaChar(t[i])
    /\ (get_city_info(t) # <<>> \/ get_state_by_name(t) # <<>>)

\* t is the right-most qualifying one of the last three parts of the text
\* at the separator
RightMost(t, text, sep) ==
    /\ Contains(text, sep)
    /\ \E i \in DOMAIN TrailingThree(text, sep) :
          /\ TrailingThree(text, sep)[i] = t
          /\ Qualifies(t)
          /\ \A j \in DOMAIN TrailingThree(text, sep) :
                j > i => ~Qualifies(TrailingThree(text, sep)[j])

\* no part of the last three at the separator qualifies
NoneQualifies(text, sep) ==
    Contains(text, sep) =>
        \A i \in DOMAIN TrailingThree(text, sep) :
            ~Qualifies(TrailingThree(text, sep)[i])

\* what the claim says of the result for the text that is split
ParsedFrom(text) ==
    /\ call.extracted # None =>
          \E k \in DOMAIN separators :
              /\ RightMost(call.extracted, text, separators[k])
              /\ \A h \in 1..(k - 1) : NoneQualifies(text, separators[h])
    /\ call.extracted = None =>
          \A k \in DOMAIN separators : NoneQualifies(text, separators[k])

\* the lower-cased address without an address-type prefix such as "addr:"
WithoutPrefix(text) ==
    IF \E i \in DOMAIN prefixes_to_remove : StartsWith(text, prefixes_to_remove[i])
    THEN LET i == CHOOSE i \in DOMAIN prefixes_to_remove :
                      StartsWith(text, prefixes_to_remove[i])
         IN Strip(SubSeq(text, Len(prefixes_to_remove[i]) + 1, Len(text)))
    ELSE text

\* C22 as stated: the part returned is the right-most qualifying one of the
\* last three separator-delimited parts of the lower-cased address, and
\* nothing is returned when no part qualifies or there is no separator.
C22_Original ==
    (pc = "parsed" /\ Complete) => ParsedFrom(Strip(Lower(call.address)))

\* C22: the same of the lower-cased address after its address-type prefix
\* has been removed, the separators being tried in the order , ; newline tab
\* double blank and the first one with a qualifying part deciding.
C22_ParsedFromCleanedAddress ==
    pc = "parsed" => ParsedFrom(WithoutPrefix(Strip(Lower(call.address))))

\* an address with a prefix and more than three parts whose right-most
\* qualifying part is returned, a qualifying part before the last three
\* being left alone
C22_Witness ==
    /\ pc = "parsed"
    /\ Complete
    /\ StartsWith(call.address, <<"A","d","d","r",":">>)
    /\ Len(Split(call.address, <<",">>)) = 4
    /\ Qualifies(Strip(Split(WithoutPrefix(Lower(call.address)), <<",">>)[1]))
    /\ call.extracted = Lower(PuneCity.display)
    /\ Strip(Split(Lower(call.address), <<",">>)[2]) = call.extracted
    /\ ~Qualifies(Strip(Split(Lower(call.address), <<",">>)[3]))
    /\ ~Qualifies(Strip(Split(Lower(call.address), <<",">>)[4]))

(***************************************************************************)
(* Resolution counters of one call                                         *)
(***************************************************************************)
\* what the call added to the counter
Delta(counter) == stats[counter] - call.before[counter]

\* the resolutions the call counted for the class, over the class's
\* counters as print_performance_report adds them up
CountryCount ==
    Delta("countries_standardized") + Delta("countries_fuzzy_matched")
    + Delta("countries_from_city_fallback")
StateCount ==
    Delta("states_standardized") + Delta("states_fuzzy_matched")
    + Delta("states_from_city_fallback")
CityCount == Delta("cities_standardized") + Delta("cities_fuzzy_matched")

\* C23: for each entity class one standardize call increments at most one of
\* the class's resolution counters, and exactly one when the class's field
\* ends up resolved: no resolution is counted in two categories or twice.
C23_Original ==
    Regular =>
        /\ CountryCount <= 1 /\ StateCount <= 1 /\ CityCount <= 1
        /\ Truthy(rec.countryCode) => CountryCount = 1
        /\ Truthy(rec.stateCode) => StateCount = 1
        /\ Truthy(rec.cityCode) => CityCount = 1

(***************************************************************************)
(* Threads calling get_full_cities_loader at the same time.  The function  *)
(* reads the global, constructs and loads an instance when it read None,   *)
(* assigns it to the global and returns what the global then holds;        *)
(* nothing keeps another thread from running between these steps.          *)
(***************************************************************************)
\* FullCitiesDataLoader(): __init__ with load_all_data, run by the caller
NewLoader(t) ==
    [by               |-> t,
     country_mappings |->
         AddVariations(load_countries(EmptyDict, snapshot.countries),
                       country_variations),
     state_mappings   |->
         AddVariations(load_states(EmptyDict, snapshot.states),
                       us_state_variations),
     city_mappings    |-> load_all_cities(EmptyDict, snapshot.cities)]

At(t, position) == callers[t].pc = position

\* anything but callers stays as it is
OnlyCallers ==
    UNCHANGED <<pc, snapshot, country_mappings, state_mappings, city_mappings,
                fuzzy, stats, rec, call, rows, workers>>

\* if full_cities_loader is None:
CheckLoader(t) ==
    /\ At(t, "start")
    /\ callers' = [callers EXCEPT ![t].pc =
                      IF full_cities_loader = <<>> THEN "constructing"
                      ELSE "returning"]
    /\ UNCHANGED full_cities_loader
    /\ OnlyCallers

\* FullCitiesDataLoader()
ConstructLoader(t) ==
    /\ At(t, "constructing")
    /\ callers' = [callers EXCEPT ![t].pc = "constructed",
                                  ![t].built = <<NewLoader(t)>>]
    /\ UNCHANGED full_cities_loader
    /\ OnlyCallers

\* full_cities_loader = <the instance constructed>
AssignLoader(t) ==
    /\ At(t, "constructed")
    /\ full_cities_loader' = callers[t].built
    /\ callers' = [callers EXCEPT ![t].pc = "returning"]
    /\ OnlyCallers

\* return full_cities_loader
ReturnLoader(t) ==
    /\ At(t, "returning")
    /\ callers' = [callers EXCEPT ![t].pc = "returned",
                                  ![t].got = full_cities_loader]
    /\ UNCHANGED full_cities_loader
    /\ OnlyCallers

NextLoaders ==
    \/ \E t \in Callers : CheckLoader(t)
    \/ \E t \in Callers : ConstructLoader(t)
    \/ \E t \in Callers : AssignLoader(t)
    \/ \E t \in Callers : ReturnLoader(t)

SpecLoaders == Init /\ [][NextLoaders]_vars

\* the instances constructed so far
Constructed == {callers[t].built[1] : t \in {u \in Callers : callers[u].built # <<>>}}

\* the instance holds the tables and aliases the load builds from the snapshot
FullyLoaded(loader) ==
    /\ loader.country_mappings = NewLoader(loader.by).country_mappings
    /\ loader.state_mappings = NewLoader(loader.by).state_mappings
    /\ loader.city_mappings = NewLoader(loader.by).city_mappings

\* C24: for any interleaving of concurrent calls of get_full_cities_loader
\* the store is constructed at most once and every caller receives that
\* same, fully loaded instance.
C24_Original ==
    /\ Cardinality(Constructed) <= 1
    /\ \A t \in Callers :
          At(t, "returned") =>
              /\ callers[t].got # <<>>
              /\ FullyLoaded(callers[t].got[1])
              /\ \A u \in Callers :
                    At(u, "returned") => callers[u].got = callers[t].got

\* C25: every countryCode standardize writes is the iso3 code of an entry of
\* the country table, whichever path resolved it: exact match, fuzzy match
\* or fallback from the resolved city.  Stated for rows whose resolved
\* city, if any, lies in a country of the table.
C25_Original ==
    (/\ Regular
     /\ Truthy(rec.countryCode)
     /\ Resolved => \E e \in Entries(country_mappings) : e.iso2 = C.country)
    => \E e \in Entries(country_mappings) : e.iso3 = rec.countryCode

\* C26: every stateCode standardize writes is the short code of an entry of
\* the state table, whichever path wrote it: exact state match, fuzzy state
\* match, the misclassified-city check or fallback from the resolved city.
C26_Original ==
    (Regular /\ Truthy(rec.stateCode)) =>
        \E e \in Entries(state_mappings) : e.code = rec.stateCode

(***************************************************************************)
(* A city text that is a state name, next to the row's own state value     *)
(***************************************************************************)
\* the city step took the city text for the state S
CityTakenAsState == Regular /\ call.city.path = "state"
S == get_state_by_name(In.city)[1]

\* the state stage resolved the row's state value
StateStageResolved == call.state.path \in {"exact", "fuzzy", "city"}

\* code and display of the state result are those of the one entry
OfOneState ==
    \E e \in Entries(state_mappings) :
        /\ rec.stateDisplay = e.display
        /\ rec.stateCode \in {e.code, e.iso3166_2}

\* C27: when the city step resolves the city text as a state S and the
\* state stage resolves the row's state value to a state S', stateCode and
\* stateDisplay are both those of S'; what was written for S is kept only
\* when the state stage resolves nothing; the two fields never come from two
\* different states.
C27_StateStageOverrides ==
    CityTakenAsState =>
        /\ StateStageResolved =>
              /\ rec.stateCode = call.state.code
              /\ rec.stateDisplay = call.state.display
        /\ ~StateStageResolved =>
              /\ rec.stateCode = S.iso3166_2
              /\ rec.stateDisplay = S.display
        /\ OfOneState

\* city "Goa" next to a state value that resolves to Puno
C27_Witness ==
    /\ CityTakenAsState
    /\ S.display = Goa.display
    /\ StateStageResolved
    /\ rec.stateCode = Puno.code
    /\ rec.stateDisplay = Puno.display

\* the codes that stand for the country of the city: the code on the city's
\* record and the iso3 of the country entry with that iso2
CountryCodesOf(city) ==
    {city.country}
    \cup {e.iso3 : e \in {x \in Entries(country_mappings) : x.iso2 = city.country}}

\* C28: whenever standardize resolves both a city and a country for a row,
\* the resolved country is the country of the resolved city: no cityCode is
\* paired with the countryCode of another country.
C28_Original ==
    (Regular /\ Resolved /\ Truthy(rec.cityCode) /\ Truthy(rec.countryCode))
    => rec.countryCode \in CountryCodesOf(C)

(***************************************************************************)
(* A snapshot whose source rows lack a code: the converter stores '' for a *)
(* missing iso3 / iso2                                                     *)
(***************************************************************************)
SparseSnapshots ==
    { [countries |-> <<[CountriesBin EXCEPT !.val[1].iso3 = <<>>]>>,
       states    |-> <<[StatesBin EXCEPT !.val[1].code = <<>>]>>,
       cities    |-> <<c>>] : c \in {CitiesBin, CitiesBinSwapped} }

InitSparse ==
    /\ pc = "unloaded"
    /\ snapshot \in SparseSnapshots
    /\ country_mappings = EmptyDict
    /\ state_mappings = EmptyDict
    /\ city_mappings = EmptyDict
    /\ fuzzy = <<>>
    /\ stats = InitialStats
    /\ rec = NoRecord
    /\ call = NoCall
    /\ rows = 0
    /\ workers = NoWorkers
    /\ full_cities_loader = <<>>
    /\ callers = [t \in Callers |-> [pc |-> "start", built |-> <<>>,
                                     got |-> <<>>]]

SpecSparse == InitSparse /\ [][Next]_vars

\* the stage counted a resolution: it returned on its exact, fuzzy or
\* city-fallback branch, each of which increments its counter
CountryCounted == call.country.path \in {"exact", "fuzzy", "city"}
StateCounted == call.state.path \in {"exact", "fuzzy", "city"}

\* C29: whenever the country or the state stage increments one of its
\* resolution counters during a call, the call writes a non-empty code and
\* display for that field, also for table entries whose code is empty.
C29_Original ==
    Regular =>
        /\ CountryCounted =>
              /\ CountryCount = 1
              /\ Truthy(rec.countryCode) /\ Truthy(rec.countryDisplay)
        /\ StateCounted =>
              /\ Delta("states_standardized") + Delta("states_fuzzy_matched")
                 + Delta("states_from_city_fallback") >= 1
              /\ Truthy(rec.stateCode) /\ Truthy(rec.stateDisplay)

(***************************************************************************)
(* Snapshot names that are also alias keys                                 *)
(***************************************************************************)
\* a row of countries.bin whose lower-cased name, "in", is a key of
\* country_variations
AliasNamed == [id |-> 900, iso3 |-> <<"I","N","X">>, iso2 |-> <<"I","X">>,
               display |-> <<"I","n">>]

CountriesBinAliased ==
    [keys |-> << <<"i","n","d","i","a">>, <<"p","e","r","u">>, <<"i","n">> >>,
     val  |-> << India, Peru, AliasNamed >>]

AliasedSnapshots ==
    { [countries |-> <<CountriesBinAliased>>, states |-> <<StatesBin>>,
       cities |-> <<c>>] : c \in {CitiesBin, CitiesBinSwapped} }

InitAliased ==
    /\ pc = "unloaded"
    /\ snapshot \in AliasedSnapshots
    /\ country_mappings = EmptyDict
    /\ state_mappings = EmptyDict
    /\ city_mappings = EmptyDict
    /\ fuzzy = <<>>
    /\ stats = InitialStats
    /\ rec = NoRecord
    /\ call = NoCall
    /\ rows = 0
    /\ workers = NoWorkers
    /\ full_cities_loader = <<>>
    /\ callers = [t \in Callers |-> [pc |-> "start", built |-> <<>>,
                                     got |-> <<>>]]

SpecAliased == InitAliased /\ [][Next]_vars

\* the table still maps every name of its file to the file's own row
KeepsFileEntries(mappings, file) ==
    \A i \in DOMAIN FileNames(file) :
        DictGet(mappings, file[1].keys[i]) = <<file[1].val[i]>>

\* C30: after load, the exact lookup of every name of the snapshot's country
\* or state table returns the snapshot's own entry for that name, also when
\* the name is a key of the alias table.
C30_Original ==
    pc # "unloaded" =>
        /\ KeepsFileEntries(country_mappings, snapshot.countries)
        /\ KeepsFileEntries(state_mappings, snapshot.states)

====
